---- MODULE Spec2Model ----
(***************************************************************************)
(* Model of olm_to_eml_converter.py: OLMToEMLConverter.convert and the     *)
(* per-record pipeline (_convert_message_to_eml, _extract_email_from_xml,  *)
(* _extract_email_from_binary).                                            *)
(*                                                                         *)
(* Text is a sequence of tokens.  A token is one character (" ", "\n",     *)
(* "a", "<") or one fixed multi-character piece that the code's patterns   *)
(* only ever match as a whole ("Subject:", "lt;", an XML tag).  A record's *)
(* bytes are a sequence of such tokens, plus BadByte for a byte that is    *)
(* not valid UTF-8.                                                        *)
(***************************************************************************)
EXTENDS Naturals, Sequences, FiniteSets, TLC

VARIABLES
    pc,             \* position inside convert()
    container,      \* what the file at olm_file_path is
    tree,           \* the files of the archive, in directory listing order
    idx,            \* number of walked files already handled by the loop
    message_count,  \* _process_messages' local counter
    outdir,         \* output directory: file name -> content (NoFile if absent)
    outdir0,        \* the output directory as it was when convert() was called
    log,            \* the lines printed so far
    calls,          \* the calls of _convert_message_to_eml so far: the path
                    \* passed and the I/O fault the call met
    tempdir,        \* the scratch directory of the run
    exc,            \* exception that left convert(), "none" otherwise
    rpc,            \* position inside _convert_message_to_eml (record pipeline)
    message_file,   \* the bytes of the record file at message_path
    content,        \* bytes read from the record file
    root,           \* outcome of ET.fromstring(content)
    eml_content,    \* text built by the extractor
    eml_file        \* content of the file written for the record

runVars == <<pc, container, tree, idx, message_count, outdir, outdir0, log, calls,
            tempdir, exc>>
recVars == <<rpc, message_file, content, root, eml_content, eml_file>>
vars == <<pc, container, tree, idx, message_count, outdir, outdir0, log, calls,
          tempdir, exc,
          rpc, message_file, content, root, eml_content, eml_file>>

-----------------------------------------------------------------------------
(* Characters and tokens *)

SP == " "
NL == "\n"
CR == "\r"
TAB == "\t"
BadByte == "0xFF"

\* what the regex class \s and str.strip() treat as whitespace
IsSpace(t) == t \in {SP, NL, CR, TAB}

\* the regex class [^\n\r]
NotEol(t) == t \notin {NL, CR}

\* re.IGNORECASE on the header names
Lower(t) ==
    CASE t = "Subject:" -> "subject:"
      [] t = "From:"    -> "from:"
      [] t = "To:"      -> "to:"
      [] t = "Date:"    -> "date:"
      [] OTHER          -> t

-----------------------------------------------------------------------------
(* Sequence helpers: slices, str.strip, str.find, str.startswith *)

Drop(s, n) == IF n >= Len(s) THEN <<>> ELSE SubSeq(s, n + 1, Len(s))
Take(s, n) == IF n >= Len(s) THEN s ELSE SubSeq(s, 1, n)

RECURSIVE LStrip(_)
LStrip(s) == IF s # <<>> /\ IsSpace(Head(s)) THEN LStrip(Tail(s)) ELSE s

RECURSIVE RStrip(_)
RStrip(s) ==
    IF s # <<>> /\ IsSpace(s[Len(s)]) THEN RStrip(SubSeq(s, 1, Len(s) - 1)) ELSE s

Strip(s) == RStrip(LStrip(s))

\* length of the longest prefix of s matched by \s*
RECURSIVE SpaceSpan(_)
SpaceSpan(s) == IF s # <<>> /\ IsSpace(Head(s)) THEN 1 + SpaceSpan(Tail(s)) ELSE 0

\* length of the longest prefix of s matched by [^\n\r]*
RECURSIVE LineSpan(_)
LineSpan(s) == IF s # <<>> /\ NotEol(Head(s)) THEN 1 + LineSpan(Tail(s)) ELSE 0

\* bytes.decode('utf-8', errors='ignore'): invalid bytes are dropped
Decode(bytes) == SelectSeq(bytes, LAMBDA t : t # BadByte)

-----------------------------------------------------------------------------
(* _extract_email_from_binary: the fallback path *)

NoMatch == [found |-> FALSE, value |-> <<>>]

\* re.match of  <name>\s*([^\n\r]+)  with IGNORECASE at token p of text.
\* \s* is greedy and backtracks: it keeps the largest number k of whitespace
\* tokens after which one more token that is no line end still follows.
HeaderMatchAt(name, text, p) ==
    IF Lower(text[p]) # name THEN NoMatch
    ELSE LET rest == Drop(text, p)
             ks   == {k \in 0..SpaceSpan(rest) :
                        k < Len(rest) /\ NotEol(rest[k + 1])}
         IN  IF ks = {} THEN NoMatch
             ELSE LET k == CHOOSE m \in ks : \A n \in ks : n <= m
                      g == Drop(rest, k)
                  IN  [found |-> TRUE, value |-> Take(g, LineSpan(g))]

\* re.search: the leftmost position of text where the pattern matches
HeaderSearch(name, text) ==
    LET ps == {p \in 1..Len(text) : HeaderMatchAt(name, text, p).found}
    IN  IF ps = {} THEN NoMatch
        ELSE HeaderMatchAt(name, text, CHOOSE p \in ps : \A q \in ps : p <= q)

\* text_content.find('\n\n'): the position (from 1) of the first "\n" that
\* is followed by another "\n"; NotFound stands for find's -1
NotFound == 0
FindBlankLine(text) ==
    LET ps == {p \in 1..(Len(text) - 1) : text[p] = NL /\ text[p + 1] = NL}
    IN  IF ps = {} THEN NotFound ELSE CHOOSE p \in ps : \A q \in ps : p <= q

NoSubject == <<"No Subject">>
UnknownSender == <<"Unknown Sender">>
UnknownRecipient == <<"Unknown Recipient">>
NotExtracted == <<"Content could not be extracted">>

\* the fields the fallback path recovers (lines 185-204); now is the text of
\* datetime.now().strftime(...)
BinaryFields(bytes, now) ==
    LET text_content  == Decode(bytes)
        subject_match == HeaderSearch("subject:", text_content)
        from_match    == HeaderSearch("from:", text_content)
        to_match      == HeaderSearch("to:", text_content)
        date_match    == HeaderSearch("date:", text_content)
        body_start    == FindBlankLine(text_content)
    IN  [subject   |-> IF subject_match.found THEN subject_match.value ELSE NoSubject,
         sender    |-> IF from_match.found THEN from_match.value ELSE UnknownSender,
         recipient |-> IF to_match.found THEN to_match.value ELSE UnknownRecipient,
         date      |-> IF date_match.found THEN date_match.value ELSE now,
         body      |-> IF body_start # NotFound
                       THEN Strip(Drop(text_content, body_start + 1))
                       ELSE NotExtracted]

\* the f-string of lines 207-213: four header lines, no Message-ID line
BinaryEml(f) ==
    <<"From:", SP>> \o f.sender \o <<NL, "To:", SP>> \o f.recipient
      \o <<NL, "Subject:", SP>> \o f.subject \o <<NL, "Date:", SP>> \o f.date
      \o <<NL, NL>> \o f.body \o <<NL>>

\* _extract_email_from_binary(content)
ExtractEmailFromBinary(bytes, now) == BinaryEml(BinaryFields(bytes, now))

-----------------------------------------------------------------------------
(* ET.fromstring *)

\* the element names the scan of lines 127-152 knows, and one it does not
SubjectTag == "OPFMessageCopySubject"
DisplayToTag == "OPFMessageCopyDisplayTo"
FromAddressesTag == "OPFMessageCopyFromAddresses"
SentTimeTag == "OPFMessageCopySentTime"
BodyTag == "OPFMessageCopyBody"
HTMLBodyTag == "OPFMessageCopyHTMLBody"
MessageIDTag == "OPFMessageCopyMessageID"
SenderAddressTag == "OPFMessageCopySenderAddress"
OtherTag == "email"

TagNames == {SubjectTag, DisplayToTag, FromAddressesTag, SentTimeTag, BodyTag,
             HTMLBodyTag, MessageIDTag, SenderAddressTag, OtherTag}

OpenTag(n) == "<" \o n \o ">"
CloseTag(n) == "</" \o n \o ">"
TagTokens == {<<OpenTag(n), CloseTag(n), n>> : n \in TagNames}
IsOpenTag(t) == \E e \in TagTokens : t = e[1]
IsCloseTag(t) == \E e \in TagTokens : t = e[2]
TagName(t) == (CHOOSE e \in TagTokens : t = e[1] \/ t = e[2])[3]

\* an XML declaration naming a multi-byte encoding: pyexpat raises ValueError
MultiByteDecl == "<?xml version='1.0' encoding='big5'?>"

\* entity references, written as "&" followed by the name token
EntityNames == {"lt;", "gt;", "amp;"}
EntityChar(n) == CASE n = "lt;" -> "<" [] n = "gt;" -> ">" [] OTHER -> "&"

ParseError == [kind |-> "ParseError", elems |-> <<>>]
ValueErrorResult == [kind |-> "ValueError", elems |-> <<>>]

AppendText(elems, target, t) ==
    IF target = 0 THEN elems
    ELSE [elems EXCEPT ![target].text = Append(@, t)]

\* One pass over the bytes.  stack: the open elements; elems: the elements
\* met so far in document order, each with its .text; target: the element
\* whose .text is being read (0 once a child or the end tag was met: what
\* follows is tail text, which the converter never reads).
\* The alphabet has no "/", so a "<" that is not one of the tag tokens can
\* never start a well-formed element.
RECURSIVE XmlScan(_, _, _, _)
XmlScan(toks, stack, elems, target) ==
    IF toks = <<>>
    THEN IF stack = <<>> /\ elems # <<>>
         THEN [kind |-> "root", elems |-> elems]
         ELSE ParseError
    ELSE LET h == Head(toks)
             r == Tail(toks)
         IN
         IF h = BadByte \/ h = "<" \/ h = MultiByteDecl THEN ParseError
         ELSE IF IsOpenTag(h)
         THEN IF stack = <<>> /\ elems # <<>> THEN ParseError
              ELSE XmlScan(r, <<TagName(h)>> \o stack,
                           Append(elems, [tag |-> TagName(h), text |-> <<>>]),
                           Len(elems) + 1)
         ELSE IF IsCloseTag(h)
         THEN IF stack = <<>> \/ Head(stack) # TagName(h) THEN ParseError
              ELSE XmlScan(r, Tail(stack), elems, 0)
         ELSE IF stack = <<>>
         THEN IF IsSpace(h) THEN XmlScan(r, stack, elems, target) ELSE ParseError
         ELSE IF h = "&"
         THEN IF r # <<>> /\ Head(r) \in EntityNames
              THEN XmlScan(Tail(r), stack,
                           AppendText(elems, target, EntityChar(Head(r))), target)
              ELSE ParseError
         ELSE IF h = CR
         THEN \* line ends are normalised to "\n"
              XmlScan(IF r # <<>> /\ Head(r) = NL THEN Tail(r) ELSE r, stack,
                      AppendText(elems, target, NL), target)
         ELSE XmlScan(r, stack, AppendText(elems, target, h), target)

\* ET.fromstring(content): the elements as root.iter() yields them, or the
\* exception raised
ETfromstring(bytes) ==
    IF bytes # <<>> /\ Head(bytes) = MultiByteDecl THEN ValueErrorResult
    ELSE XmlScan(bytes, <<>>, <<>>, 0)

-----------------------------------------------------------------------------
(* _extract_email_from_xml: the structured path *)

\* html.unescape: one pass, left to right; what a reference decodes to is
\* not scanned again
RECURSIVE HtmlUnescape(_)
HtmlUnescape(s) ==
    IF s = <<>> THEN <<>>
    ELSE IF Head(s) = "&" /\ Len(s) >= 2 /\ s[2] \in EntityNames
    THEN <<EntityChar(s[2])>> \o HtmlUnescape(Drop(s, 2))
    ELSE <<Head(s)>> \o HtmlUnescape(Tail(s))

\* length of the longest prefix of s matched by [^>]*
RECURSIVE TagSpan(_)
TagSpan(s) == IF s # <<>> /\ Head(s) # ">" THEN 1 + TagSpan(Tail(s)) ELSE 0

\* re.sub(r'<[^>]+>', '', body)
RECURSIVE StripTags(_)
StripTags(s) ==
    IF s = <<>> THEN <<>>
    ELSE LET n == TagSpan(Tail(s))
         IN  IF Head(s) = "<" /\ n >= 1 /\ n < Len(Tail(s))
             THEN StripTags(Drop(s, n + 2))
             ELSE <<Head(s)>> \o StripTags(Tail(s))

\* re.sub(r'\s+', ' ', body)
RECURSIVE CollapseSpace(_)
CollapseSpace(s) ==
    IF s = <<>> THEN <<>>
    ELSE IF IsSpace(Head(s))
    THEN <<SP>> \o CollapseSpace(Drop(s, SpaceSpan(s)))
    ELSE <<Head(s)>> \o CollapseSpace(Tail(s))

\* lines 154-159
CleanBody(body) ==
    IF body # <<>> /\ Head(body) = "<"
    THEN Strip(CollapseSpace(HtmlUnescape(StripTags(body))))
    ELSE body

\* dates: a day token, the separator "T", a time token, an optional zone
IsoDay == "2024-01-02"
IsoTime == "10:00:00"
Formatted == "Tue, 02 Jan 2024 10:00:00"

\* 'T' in date, a test on characters
HasT(date) == \E i \in 1..Len(date) : date[i] \in {"T", Formatted}

\* date.replace('Z', '+00:00')
ReplaceZ(date) == [i \in 1..Len(date) |-> IF date[i] = "Z" THEN "+00:00" ELSE date[i]]

\* datetime.fromisoformat(...).strftime('%a, %d %b %Y %H:%M:%S %z'); %z is
\* empty for a time without zone.  "ValueError" when the text is no ISO time.
IsoToRfc(date) ==
    IF date = <<IsoDay, "T", IsoTime>> THEN <<Formatted, SP>>
    ELSE IF date = <<IsoDay, "T", IsoTime, "+00:00">> THEN <<Formatted, SP, "+0000">>
    ELSE <<"ValueError">>

\* a date that cannot be reformatted is dropped
FormatDateDropsOnFailure(date) ==
    IF date # <<>> /\ HasT(date)
    THEN IF IsoToRfc(ReplaceZ(date)) = <<"ValueError">> THEN <<>>
         ELSE IsoToRfc(ReplaceZ(date))
    ELSE date

\* lines 161-168
FormatDate(date) ==
    IF date # <<>> /\ HasT(date)
    THEN IF IsoToRfc(ReplaceZ(date)) = <<"ValueError">> THEN date
         ELSE IsoToRfc(ReplaceZ(date))
    ELSE date

\* the defaults of the fallback path used for the structured path
EmptyFieldsWithPlaceholders ==
    [subject |-> NoSubject, sender |-> UnknownSender, recipient |-> UnknownRecipient,
     date |-> <<>>, body |-> NotExtracted, message_id |-> <<>>]

\* lines 119-124
EmptyFields ==
    [subject |-> <<>>, sender |-> <<>>, recipient |-> <<>>, date |-> <<>>,
     body |-> <<>>, message_id |-> <<>>]

\* a subject, once found, is kept
ScanElemKeepsFirstSubject(f, elem) ==
    CASE elem.tag = SubjectTag ->
            IF f.subject = <<>> THEN [f EXCEPT !.subject = elem.text] ELSE f
      [] elem.tag = DisplayToTag     -> [f EXCEPT !.recipient = elem.text]
      [] elem.tag = FromAddressesTag -> [f EXCEPT !.sender = elem.text]
      [] elem.tag = SentTimeTag      -> [f EXCEPT !.date = elem.text]
      [] elem.tag = BodyTag ->
            IF elem.text # <<>> THEN [f EXCEPT !.body = HtmlUnescape(elem.text)] ELSE f
      [] elem.tag = HTMLBodyTag ->
            IF elem.text # <<>> /\ f.body = <<>>
            THEN [f EXCEPT !.body = HtmlUnescape(elem.text)] ELSE f
      [] elem.tag = MessageIDTag     -> [f EXCEPT !.message_id = elem.text]
      [] OTHER -> f

\* the plain body is taken only while no body was found, like the HTML one
ScanElemKeepsFirstBody(f, elem) ==
    CASE elem.tag = SubjectTag       -> [f EXCEPT !.subject = elem.text]
      [] elem.tag = DisplayToTag     -> [f EXCEPT !.recipient = elem.text]
      [] elem.tag = FromAddressesTag -> [f EXCEPT !.sender = elem.text]
      [] elem.tag = SentTimeTag      -> [f EXCEPT !.date = elem.text]
      [] elem.tag = BodyTag ->
            IF elem.text # <<>> /\ f.body = <<>>
            THEN [f EXCEPT !.body = HtmlUnescape(elem.text)] ELSE f
      [] elem.tag = HTMLBodyTag ->
            IF elem.text # <<>> /\ f.body = <<>>
            THEN [f EXCEPT !.body = HtmlUnescape(elem.text)] ELSE f
      [] elem.tag = MessageIDTag     -> [f EXCEPT !.message_id = elem.text]
      [] OTHER -> f

\* one turn of the loop of lines 127-145
ScanElem(f, elem) ==
    CASE elem.tag = SubjectTag       -> [f EXCEPT !.subject = elem.text]
      [] elem.tag = DisplayToTag     -> [f EXCEPT !.recipient = elem.text]
      [] elem.tag = FromAddressesTag -> [f EXCEPT !.sender = elem.text]
      [] elem.tag = SentTimeTag      -> [f EXCEPT !.date = elem.text]
      [] elem.tag = BodyTag ->
            IF elem.text # <<>> THEN [f EXCEPT !.body = HtmlUnescape(elem.text)] ELSE f
      [] elem.tag = HTMLBodyTag ->
            IF elem.text # <<>> /\ f.body = <<>>
            THEN [f EXCEPT !.body = HtmlUnescape(elem.text)] ELSE f
      [] elem.tag = MessageIDTag     -> [f EXCEPT !.message_id = elem.text]
      [] OTHER -> f

RECURSIVE ScanElems(_, _)
ScanElems(f, elems) ==
    IF elems = <<>> THEN f ELSE ScanElems(ScanElem(f, Head(elems)), Tail(elems))

\* the secondary element is taken whether a sender was found or not
SenderFallbackAlways(f, elems) ==
    LET ps == {p \in 1..Len(elems) : elems[p].tag = SenderAddressTag}
    IN  IF ps # {}
        THEN [f EXCEPT !.sender = elems[CHOOSE p \in ps : \A q \in ps : p <= q].text]
        ELSE f

\* lines 147-152: the first OPFMessageCopySenderAddress element, if sender is
\* still empty
SenderFallback(f, elems) ==
    LET ps == {p \in 1..Len(elems) : elems[p].tag = SenderAddressTag}
    IN  IF f.sender = <<>> /\ ps # {}
        THEN [f EXCEPT !.sender = elems[CHOOSE p \in ps : \A q \in ps : p <= q].text]
        ELSE f

\* the fields the structured path recovers (lines 119-168)
XmlFields(elems) ==
    LET f == SenderFallback(ScanElems(EmptyFields, elems), elems)
    IN  [f EXCEPT !.body = CleanBody(f.body), !.date = FormatDate(f.date)]

\* the f-string of lines 171-178
XmlEml(f) ==
    <<"From:", SP>> \o f.sender \o <<NL, "To:", SP>> \o f.recipient
      \o <<NL, "Subject:", SP>> \o f.subject \o <<NL, "Date:", SP>> \o f.date
      \o <<NL, "Message-ID:", SP>> \o f.message_id
      \o <<NL, NL>> \o f.body \o <<NL>>

\* _extract_email_from_xml(root)
ExtractEmailFromXml(elems) == XmlEml(XmlFields(elems))

-----------------------------------------------------------------------------
(* _convert_message_to_eml, step by step, for one record *)

\* no file at a path
NoFile == <<"(no file)">>

\* what datetime.now().strftime("%a, %d %b %Y %H:%M:%S %z") returns
NowTexts == {<<"Thu, 05 Nov 2026 11:34:57", SP>>}

\* open(eml_path, 'w') and f.write: done; open refused (nothing changes);
\* the write fails after open truncated the file
WriteOutcomes == {"written", "open_failed", "write_failed"}

NoRoot == [kind |-> "none", elems |-> <<>>]

\* lines 90-91
ReadMessage ==
    /\ rpc = "open"
    /\ \E readable \in BOOLEAN :
          IF readable
          THEN content' = message_file /\ rpc' = "parse"
          ELSE content' = content /\ rpc' = "error"
    /\ UNCHANGED <<message_file, root, eml_content, eml_file>>
    /\ UNCHANGED runVars

\* line 96, and where its outcome leads: line 97, line 100 (except
\* ET.ParseError) or line 113 (any other exception)
ParseXml ==
    /\ rpc = "parse"
    /\ root' = ETfromstring(content)
    /\ rpc' = CASE root'.kind = "root"       -> "xml"
                [] root'.kind = "ParseError" -> "binary"
                [] OTHER                     -> "error"
    /\ UNCHANGED <<message_file, content, eml_content, eml_file>>
    /\ UNCHANGED runVars

\* line 97
ExtractXml ==
    /\ rpc = "xml"
    /\ eml_content' = ExtractEmailFromXml(root.elems)
    /\ rpc' = "write"
    /\ UNCHANGED <<message_file, content, root, eml_file>>
    /\ UNCHANGED runVars

\* line 100
ExtractBinary ==
    /\ rpc = "binary"
    /\ \E now \in NowTexts : eml_content' = ExtractEmailFromBinary(content, now)
    /\ rpc' = "write"
    /\ UNCHANGED <<message_file, content, root, eml_file>>
    /\ UNCHANGED runVars

\* the file is opened for appending
WrittenAppends(old, text, outcome) ==
    CASE outcome = "written"      -> IF old = NoFile THEN text ELSE old \o text
      [] outcome = "write_failed" -> IF old = NoFile THEN <<>> ELSE old
      [] OTHER                    -> old

\* the file at eml_path after lines 107-108
Written(old, text, outcome) ==
    CASE outcome = "written"      -> text
      [] outcome = "write_failed" -> <<>>
      [] OTHER                    -> old

\* lines 102-110; eml_content is never empty, so line 102 always passes
WriteEml ==
    /\ rpc = "write"
    /\ \E outcome \in WriteOutcomes :
          /\ eml_file' = Written(eml_file, eml_content, outcome)
          /\ rpc' = IF outcome = "written" THEN "done" ELSE "error"
    /\ UNCHANGED <<message_file, content, root, eml_content>>
    /\ UNCHANGED runVars

-----------------------------------------------------------------------------
(* The records the record pipeline is run on *)

RECURSIVE Flatten(_)
Flatten(ss) == IF ss = <<>> THEN <<>> ELSE Head(ss) \o Flatten(Tail(ss))

SeqsUpTo(S, n) == UNION {[1..k -> S] : k \in 0..n}

\* records of header lines: "Subject: v1\nFrom: v2\nTo: v3\nDate: v4\n\nbody"
HeaderValues ==
    {<<"a">>, <<"b", SP, "c">>, <<"up", "date:", SP, "x">>, <<"mail", "to:", "b">>, <<>>}
HeaderBodies == {<<"x">>, <<"x", NL, NL, "y">>, <<SP, "x", NL>>}

HeaderRecord(vs, vf, vt, vd, b) ==
    <<"Subject:", SP>> \o vs \o <<NL, "From:", SP>> \o vf \o <<NL, "To:", SP>> \o vt
      \o <<NL, "Date:", SP>> \o vd \o <<NL, NL>> \o b

HeaderRecords ==
    {HeaderRecord(vs, vf, vt, vd, b) :
        vs \in HeaderValues, vf \in HeaderValues, vt \in HeaderValues,
        vd \in HeaderValues, b \in HeaderBodies}

\* short free text
MaxTextLen == 4
TextAlphabet == {"x", SP, NL, "To:", "to:", "Subject:", BadByte}
FreeTexts == SeqsUpTo(TextAlphabet, MaxTextLen)

\* the bytes of an element whose .text is text
RECURSIVE XmlEscape(_)
XmlEscape(text) ==
    IF text = <<>> THEN <<>>
    ELSE (CASE Head(text) = "<" -> <<"&", "lt;">>
            [] Head(text) = ">" -> <<"&", "gt;">>
            [] Head(text) = "&" -> <<"&", "amp;">>
            [] OTHER -> <<Head(text)>>) \o XmlEscape(Tail(text))

ElemBytes(e) == <<OpenTag(e.tag)>> \o XmlEscape(e.text) \o <<CloseTag(e.tag)>>

\* a document: the root element and its children
XmlRecord(children) ==
    <<OpenTag(OtherTag)>>
      \o Flatten([i \in 1..Len(children) |-> ElemBytes(children[i])])
      \o <<CloseTag(OtherTag)>>

MaxElems == 3
ElemChoices ==
    {[tag |-> SubjectTag, text |-> <<"s">>],
     [tag |-> DisplayToTag, text |-> <<"r">>],
     [tag |-> FromAddressesTag, text |-> <<"f">>],
     [tag |-> FromAddressesTag, text |-> <<>>],
     [tag |-> SentTimeTag, text |-> <<IsoDay, "T", IsoTime, "Z">>],
     [tag |-> SentTimeTag, text |-> <<IsoDay, "T">>],
     [tag |-> BodyTag, text |-> <<"p", NL, "q">>],
     [tag |-> HTMLBodyTag, text |-> <<"<", "p", ">", "h">>],
     [tag |-> MessageIDTag, text |-> <<"m">>],
     [tag |-> SenderAddressTag, text |-> <<"g">>],
     [tag |-> OtherTag, text |-> <<"o">>]}
XmlRecords == {XmlRecord(c) : c \in SeqsUpTo(ElemChoices, MaxElems)}

\* documents whose only child is a body made of pieces of HTML
MaxChunks == 4
HtmlChunks ==
    {<<"<", "p", ">">>, <<"<">>, <<">">>, <<"p">>, <<SP>>,
     <<"&", "lt;">>, <<"&", "amp;", "lt;">>, <<"&", "amp;", "amp;", "lt;">>}
HtmlBodies == {Flatten(c) : c \in SeqsUpTo(HtmlChunks, MaxChunks)}
HtmlRecords == {XmlRecord(<<[tag |-> BodyTag, text |-> b]>>) : b \in HtmlBodies}

\* the bytes of elements that lie one inside the other, each with its text
\* before its child
RECURSIVE NestedBytes(_)
NestedBytes(children) ==
    IF children = <<>> THEN <<>>
    ELSE <<OpenTag(Head(children).tag)>> \o XmlEscape(Head(children).text)
           \o NestedBytes(Tail(children)) \o <<CloseTag(Head(children).tag)>>

NestedRecord(children) ==
    <<OpenTag(OtherTag)>> \o NestedBytes(children) \o <<CloseTag(OtherTag)>>

\* documents in which a tag occurs more than once, side by side or nested
RepeatChoices ==
    {[tag |-> t, text |-> v] :
        t \in {SubjectTag, DisplayToTag, FromAddressesTag, SentTimeTag, MessageIDTag},
        v \in {<<"1">>, <<"2">>}}
      \cup {[tag |-> SubjectTag, text |-> <<>>]}
RepeatRecords ==
    {XmlRecord(c) : c \in SeqsUpTo(RepeatChoices, MaxElems)}
      \cup {NestedRecord(c) : c \in SeqsUpTo(RepeatChoices, MaxElems)}

\* documents with plain and HTML bodies, empty ones too
BodyChoices ==
    {[tag |-> BodyTag, text |-> <<"p">>], [tag |-> BodyTag, text |-> <<"q">>],
     [tag |-> BodyTag, text |-> <<>>],
     [tag |-> HTMLBodyTag, text |-> <<"h">>], [tag |-> HTMLBodyTag, text |-> <<"i">>],
     [tag |-> HTMLBodyTag, text |-> <<>>]}
BodyRecords == {XmlRecord(c) : c \in SeqsUpTo(BodyChoices, MaxElems)}

\* documents with primary and secondary sender elements
SenderChoices ==
    {[tag |-> FromAddressesTag, text |-> <<"f">>], [tag |-> FromAddressesTag, text |-> <<>>],
     [tag |-> SenderAddressTag, text |-> <<"g">>], [tag |-> SenderAddressTag, text |-> <<"k">>],
     [tag |-> SenderAddressTag, text |-> <<>>]}
SenderRecords == {XmlRecord(c) : c \in SeqsUpTo(SenderChoices, MaxElems)}

\* a document in a multi-byte encoding, and one cut short
OddRecords ==
    {<<MultiByteDecl, OpenTag(OtherTag), CloseTag(OtherTag)>>,
     <<OpenTag(OtherTag), OpenTag(SubjectTag), "s">>}

Records ==
    HeaderRecords \cup FreeTexts \cup XmlRecords \cup HtmlRecords \cup OddRecords
      \cup RepeatRecords \cup BodyRecords \cup SenderRecords

\* one record is converted; convert() is not running
RecInit ==
    /\ rpc = "open"
    /\ message_file \in Records
    /\ content = <<>>
    /\ root = NoRoot
    /\ eml_content = <<>>
    /\ eml_file \in {NoFile, <<"old">>}
    /\ pc = "off" /\ container = "none" /\ tree = <<>> /\ idx = 0
    /\ message_count = 0 /\ outdir = <<>> /\ outdir0 = <<>> /\ log = <<>>
    /\ calls = <<>> /\ tempdir = "none"
    /\ exc = "none"

RecNext == ReadMessage \/ ParseXml \/ ExtractXml \/ ExtractBinary \/ WriteEml

RecSpec == RecInit /\ [][RecNext]_vars

-----------------------------------------------------------------------------
(* convert(): the archive, the walk and the output directory *)

\* file names: a stem and an extension
Olk15 == ".olk15Message"
Olk14 == ".olk14Message"

\* lines 74-76: endswith, endswith, startswith and endswith
IsMessageFile(name) ==
    \/ name[Len(name)] = Olk15
    \/ name[Len(name)] = Olk14
    \/ (name[1] = "message_" /\ name[Len(name)] = ".xml")

\* some files of an archive: the top-level directory they lie under, the
\* directories below it down to the file, their name and their bytes
SampleFiles ==
    {[dir |-> "Local", sub |-> <<>>, name |-> <<"a", Olk15>>,
      bytes |-> XmlRecord(<<[tag |-> SubjectTag, text |-> <<"s">>],
                            [tag |-> BodyTag, text |-> <<"p">>]>>)],
     [dir |-> "Accounts", sub |-> <<"sub">>, name |-> <<"b", Olk14>>,
      bytes |-> HeaderRecord(<<"a">>, <<"b">>, <<"c">>, <<"d">>, <<"x">>)],
     [dir |-> "Local", sub |-> <<"sub">>, name |-> <<"message_", "7", ".xml">>,
      bytes |-> <<MultiByteDecl, OpenTag(OtherTag), CloseTag(OtherTag)>>],
     [dir |-> "Accounts", sub |-> <<>>, name |-> <<"message_", "notes", ".xml">>,
      bytes |-> <<"x", BadByte>>],
     [dir |-> "Other", sub |-> <<"Local">>, name |-> <<"c", Olk15>>,
      bytes |-> XmlRecord(<<[tag |-> SubjectTag, text |-> <<"t">>]>>)],
     [dir |-> "Local", sub |-> <<>>, name |-> <<"notes", ".xml">>,
      bytes |-> XmlRecord(<<>>)]}

MaxFiles == 3

\* the archives: up to MaxFiles different files, in listing order
Trees ==
    {[files |-> fs] :
        fs \in {s \in SeqsUpTo(SampleFiles, MaxFiles) :
                   \A i, j \in 1..Len(s) : i # j => s[i] # s[j]}}

PathOf(file) == [dir |-> file.dir, sub |-> file.sub, name |-> file.name]
NoPath == [dir |-> "", sub |-> <<>>, name |-> <<>>]

\* lines 57-64: local_dir.exists(), accounts_dir.exists()
DirExists(t, d) == \E i \in 1..Len(t.files) : t.files[i].dir = d

\* without the two directories, the whole tree is searched
SearchDirsOrWholeTree(t) ==
    IF DirExists(t, "Local") \/ DirExists(t, "Accounts")
    THEN (IF DirExists(t, "Local") THEN <<"Local">> ELSE <<>>)
           \o (IF DirExists(t, "Accounts") THEN <<"Accounts">> ELSE <<>>)
    ELSE IF t.files = <<>> THEN <<>> ELSE <<t.files[1].dir>>

SearchDirs(t) ==
    (IF DirExists(t, "Local") THEN <<"Local">> ELSE <<>>)
      \o (IF DirExists(t, "Accounts") THEN <<"Accounts">> ELSE <<>>)

\* os.walk(search_dir), top down: the files of the directory itself, then
\* those of the directory below it, each in listing order
WalkDir(t, d) ==
    SelectSeq(t.files, LAMBDA f : f.dir = d /\ f.sub = <<>>)
      \o SelectSeq(t.files, LAMBDA f : f.dir = d /\ f.sub # <<>>)

\* lines 71-73: the files os.walk yields, search directory by search directory
Walk(t) == Flatten([k \in 1..Len(SearchDirs(t)) |-> WalkDir(t, SearchDirs(t)[k])])

\* f"{message_count:05d}"
RECURSIVE Digits(_)
Digits(n) ==
    IF n < 10 THEN <<ToString(n)>> ELSE Digits(n \div 10) \o <<ToString(n % 10)>>

PadWidth == 5
Pad05d(n) ==
    [i \in 1..(PadWidth - Len(Digits(n))) |-> "0"] \o Digits(n)

\* line 104
EmlFilename(n) == <<"message_">> \o Pad05d(n) \o <<".eml">>

OutNames == {EmlFilename(n) : n \in 0..MaxFiles}
EmptyDir == [n \in OutNames |-> NoFile]
\* a directory that holds a file of an earlier run
UsedDir == [EmptyDir EXCEPT ![EmlFilename(1)] = <<"old", NL, "old">>]

\* the printed lines
Line(kind, path, eml, e, n) ==
    [kind |-> kind, path |-> path, eml |-> eml, exc |-> e, n |-> n]

\* the exceptions that occur; all are instances of Exception
ReadError == "OSError: message_path"
WriteError == "OSError: eml_path"
EncodingError == "ValueError: multi-byte encodings are not supported"
InvalidContainer == "ValueError: Invalid OLM file"
ContainerError == "OSError: olm_file_path"
BadZipFile == "BadZipFile"
Exceptions ==
    {ReadError, WriteError, EncodingError, InvalidContainer, ContainerError, BadZipFile}

\* a handler that names ValueError only
CaughtAtLine112ValueErrorOnly(e) == e \in {EncodingError, InvalidContainer}

\* no handler inside _convert_message_to_eml
CaughtAtLine112Nothing(e) == FALSE

\* line 112: except Exception
CaughtAtLine112(e) == e \in Exceptions

\* line 81: except Exception
CaughtAtLine81(e) == e \in Exceptions

\* a handler that reports the BadZipFile and lets the run go on
ExtractOlmSwallowsBadZip(c) ==
    IF c \in {"zip", "not_zip", "corrupt_member"} THEN "none" ELSE ContainerError

\* lines 45-50: the exception _extract_olm raises for a container; a
\* BadZipFile, met on opening or while extracting, is raised as ValueError
ExtractOlm(c) ==
    CASE c = "zip"            -> "none"
      [] c = "not_zip"        -> InvalidContainer
      [] c = "corrupt_member" -> InvalidContainer
      [] OTHER                -> ContainerError

Containers == {"zip", "not_zip", "corrupt_member", "unreadable"}

\* lines 94-100: the text for a record that parses or falls back
EmlText(bytes, now) ==
    IF ETfromstring(bytes).kind = "root"
    THEN ExtractEmailFromXml(ETfromstring(bytes).elems)
    ELSE ExtractEmailFromBinary(bytes, now)

\* lines 71-77: the message files, in the order the walk meets them
Located(t) == SelectSeq(Walk(t), LAMBDA f : IsMessageFile(f.name))

\* the output file is opened before the record is read
ConvertBodyOpensFirst(parsed, eml, count, readable, outcome, dir) ==
    LET eml_filename == EmlFilename(count)
    IN  IF outcome = "open_failed" THEN [exc |-> WriteError, outdir |-> dir]
        ELSE IF ~readable
        THEN [exc |-> ReadError, outdir |-> [dir EXCEPT ![eml_filename] = <<>>]]
        ELSE IF parsed.kind = "ValueError"
        THEN [exc |-> EncodingError, outdir |-> [dir EXCEPT ![eml_filename] = <<>>]]
        ELSE [exc |-> IF outcome = "written" THEN "none" ELSE WriteError,
              outdir |-> [dir EXCEPT ![eml_filename] = Written(@, eml, outcome)]]

\* _convert_message_to_eml up to its except clause, for a record whose
\* bytes give parsed and eml once read: the exception raised inside the try
\* block and the output directory it leaves
ConvertBody(parsed, eml, count, readable, outcome, dir) ==
    LET eml_filename == EmlFilename(count)
    IN  IF ~readable THEN [exc |-> ReadError, outdir |-> dir]
        ELSE IF parsed.kind = "ValueError" THEN [exc |-> EncodingError, outdir |-> dir]
        ELSE [exc |-> IF outcome = "written" THEN "none" ELSE WriteError,
              outdir |-> [dir EXCEPT ![eml_filename] = Written(@, eml, outcome)]]

\* the I/O fault a call met
FaultOf(readable, outcome) ==
    IF ~readable THEN "read" ELSE IF outcome = "written" THEN "none" ELSE outcome

\* a handler that leaves the loop
AfterFileStopsOnFailure(i, n, failed) == IF failed THEN n ELSE i + 1

\* lines 73-82: the loop goes on with the next of the n files, whatever
\* became of file i + 1
AfterFile(i, n, failed) == i + 1

Init ==
    /\ pc = "start"
    /\ container \in Containers
    /\ tree \in Trees
    /\ idx = 0
    /\ message_count = 0
    /\ outdir \in {EmptyDir, UsedDir}
    /\ outdir0 = outdir
    /\ log = <<>>
    /\ calls = <<>>
    /\ tempdir = "none"
    /\ exc = "none"
    /\ rpc = "off" /\ message_file = <<>> /\ content = <<>> /\ root = NoRoot
    /\ eml_content = <<>> /\ eml_file = NoFile

\* a directory made with mkdtemp and removed by the last statement only
TemporaryDirectoryExitAtEndOnly(dir, raised) == IF raised THEN dir ELSE "removed"

\* line 32: leaving the with block of tempfile.TemporaryDirectory(), by its
\* end or by an exception, removes the directory
TemporaryDirectoryExit(dir, raised) == "removed"

\* lines 29-33
ConvertBegin ==
    /\ pc = "start"
    /\ log' = Append(log, Line("converting", NoPath, <<>>, "none", 0))
    /\ tempdir' = "created"
    /\ pc' = "extract"
    /\ UNCHANGED <<container, tree, idx, message_count, outdir, outdir0, calls, exc>>
    /\ UNCHANGED recVars

\* line 36; an exception leaves the with block, which removes the directory
ExtractContainer ==
    /\ pc = "extract"
    /\ IF ExtractOlm(container) = "none"
       THEN /\ log' = Append(log, Line("extracted", NoPath, <<>>, "none", 0))
            /\ tempdir' = "extracted"
            /\ pc' = "process"
            /\ exc' = exc
       ELSE /\ log' = log
            /\ tempdir' = TemporaryDirectoryExit(tempdir, TRUE)
            /\ pc' = "raised"
            /\ exc' = ExtractOlm(container)
    /\ UNCHANGED <<container, tree, idx, message_count, outdir, outdir0, calls>>
    /\ UNCHANGED recVars

\* lines 54-68
ProcessMessagesBegin ==
    /\ pc = "process"
    /\ IF SearchDirs(tree) = <<>>
       THEN /\ log' = Append(log, Line("no_dirs", NoPath, <<>>, "none", 0))
            /\ pc' = "leave"
       ELSE /\ log' = log
            /\ pc' = "walk"
    /\ UNCHANGED <<container, tree, idx, message_count, outdir, outdir0, calls, tempdir, exc>>
    /\ UNCHANGED recVars

\* lines 73-76 for a file whose name is none of the recognized ones
SkipFile ==
    /\ pc = "walk"
    /\ idx < Len(Walk(tree))
    /\ ~IsMessageFile(Walk(tree)[idx + 1].name)
    /\ idx' = idx + 1
    /\ UNCHANGED <<pc, container, tree, message_count, outdir, outdir0, log, calls,
                   tempdir, exc>>
    /\ UNCHANGED recVars

\* lines 73-82 for a message file: _convert_message_to_eml and what the two
\* except clauses make of its exception
ConvertFile ==
    /\ pc = "walk"
    /\ idx < Len(Walk(tree))
    /\ IsMessageFile(Walk(tree)[idx + 1].name)
    /\ \E now \in NowTexts :
       LET file == Walk(tree)[idx + 1]
           parsed == ETfromstring(file.bytes)
           eml == EmlText(file.bytes, now)
       IN
       \E readable \in BOOLEAN, outcome \in WriteOutcomes :
          LET r == ConvertBody(parsed, eml, message_count, readable, outcome, outdir)
          IN  /\ outdir' = r.outdir
              /\ calls' = Append(calls, [path |-> PathOf(file),
                                         fault |-> FaultOf(readable, outcome)])
              /\ IF r.exc = "none"
                 THEN /\ log' = Append(log, Line("converted", NoPath,
                                                 EmlFilename(message_count), "none", 0))
                      /\ message_count' = message_count + 1
                      /\ idx' = AfterFile(idx, Len(Walk(tree)), FALSE)
                      /\ UNCHANGED <<pc, exc, tempdir>>
                 ELSE IF CaughtAtLine112(r.exc)
                 THEN /\ log' = Append(log, Line("error_converting", PathOf(file),
                                                 <<>>, r.exc, 0))
                      /\ message_count' = message_count + 1
                      /\ idx' = AfterFile(idx, Len(Walk(tree)), TRUE)
                      /\ UNCHANGED <<pc, exc, tempdir>>
                 ELSE IF CaughtAtLine81(r.exc)
                 THEN /\ log' = Append(log, Line("error_processing", PathOf(file),
                                                 <<>>, r.exc, 0))
                      /\ message_count' = message_count
                      /\ idx' = AfterFile(idx, Len(Walk(tree)), TRUE)
                      /\ UNCHANGED <<pc, exc, tempdir>>
                 ELSE /\ pc' = "raised"
                      /\ exc' = r.exc
                      /\ tempdir' = TemporaryDirectoryExit(tempdir, TRUE)
                      /\ UNCHANGED <<log, message_count, idx>>
    /\ UNCHANGED <<container, tree, outdir0>>
    /\ UNCHANGED recVars

\* line 84
ProcessMessagesEnd ==
    /\ pc = "walk"
    /\ idx >= Len(Walk(tree))
    /\ log' = Append(log, Line("processed", NoPath, <<>>, "none", message_count))
    /\ pc' = "leave"
    /\ UNCHANGED <<container, tree, idx, message_count, outdir, outdir0, calls, tempdir, exc>>
    /\ UNCHANGED recVars

\* the end of the with block, and line 41
ConvertEnd ==
    /\ pc = "leave"
    /\ tempdir' = TemporaryDirectoryExit(tempdir, FALSE)
    /\ log' = Append(log, Line("complete", NoPath, <<>>, "none", 0))
    /\ pc' = "returned"
    /\ UNCHANGED <<container, tree, idx, message_count, outdir, outdir0, calls, exc>>
    /\ UNCHANGED recVars

Next ==
    \/ ConvertBegin
    \/ ExtractContainer
    \/ ProcessMessagesBegin
    \/ SkipFile
    \/ ConvertFile
    \/ ProcessMessagesEnd
    \/ ConvertEnd

Spec == Init /\ [][Next]_vars

-----------------------------------------------------------------------------
(* Properties of convert() *)

\* the message files among the first i files of the walk
LocatedAmong(t, i) ==
    SelectSeq(SubSeq(Walk(t), 1, i), LAMBDA f : IsMessageFile(f.name))

PathsOf(fs) == [k \in 1..Len(fs) |-> PathOf(fs[k])]
CallPaths == [k \in 1..Len(calls) |-> calls[k].path]

\* the lines that report a record that was not converted
ErrorLines == SelectSeq(log, LAMBDA l : l.kind \in {"error_converting", "error_processing"})
ConvertedLines == SelectSeq(log, LAMBDA l : l.kind = "converted")

\* the message files of a directory
MessageFiles(dir) == {n \in DOMAIN dir : dir[n] # NoFile}

\* the records whose conversion fails whatever the file system does
Unparsable == {f \in SampleFiles : ETfromstring(f.bytes).kind = "ValueError"}
ParseFails(file) == file \in Unparsable

\* the text each record is converted to
TextOf == {<<PathOf(f), EmlText(f.bytes, now)>> : f \in SampleFiles, now \in NowTexts}

\* C1: with a container that extracts, no failed read, parse or write of a
\* record ends the run or skips a later record: convert() never raises, the
\* records handed to _convert_message_to_eml are at every moment exactly the
\* located records among the files walked so far, in walk order, the run can
\* always take its next step until convert() has returned, and it returns
\* after the final count was printed.
C1_EveryRecordAttempted ==
    container = "zip" =>
        /\ pc # "raised"
        /\ exc = "none"
        /\ pc = "walk" => CallPaths = PathsOf(LocatedAmong(tree, idx))
        /\ (pc \in {"leave", "returned"} /\ SearchDirs(tree) # <<>>) =>
              /\ CallPaths = PathsOf(Located(tree))
              /\ \E k \in 1..Len(log) :
                    log[k].kind = "processed" /\ log[k].n = message_count
        /\ pc # "returned" => ENABLED Next

\* a finished run in which a record failed and a later one was converted
C1_Witness ==
    /\ pc = "returned"
    /\ \E i, j \in 1..Len(calls) :
          /\ i < j
          /\ calls[i].fault # "none"
          /\ calls[j].fault = "none"
          /\ ~ParseFails(Located(tree)[j])
    /\ \E i \in 1..Len(calls) : ParseFails(Located(tree)[i])

ReadFailures == {k \in 1..Len(calls) : calls[k].fault = "read"}

\* the only failures of the run are failed reads
OnlyReadFailures ==
    /\ \A k \in 1..Len(calls) : calls[k].fault \in {"read", "none"}
    /\ \A k \in 1..Len(Located(tree)) : ~ParseFails(Located(tree)[k])

BadArchive == container \in {"not_zip", "corrupt_member"}

\* C3: when the container is no well-formed archive, convert() ends in
\* _extract_olm with the ValueError "Invalid OLM file"; no record is handed to
\* the converter, nothing is counted and the output directory stays as it was.
C3_InvalidContainer ==
    BadArchive =>
        /\ calls = <<>>
        /\ idx = 0
        /\ message_count = 0
        /\ ConvertedLines = <<>>
        /\ outdir = outdir0
        /\ pc \in {"start", "extract", "raised"}
        /\ pc = "raised" => exc = InvalidContainer

\* a damaged archive that holds message records
C3_Witness ==
    /\ container = "corrupt_member"
    /\ pc = "raised"
    /\ exc = InvalidContainer
    /\ Len(Located(tree)) >= 2

\* C4: whenever convert() ends by raising, the exception is InvalidContainer
\* (the ValueError "Invalid OLM file"); no other failure of any stage leaves
\* convert().
C4_OnlyInvalidContainerRaised ==
    pc = "raised" => exc = InvalidContainer

\* message_<i zero-padded to 5 digits>.eml, for i < 10
ExpectedName(i) == <<"message_", "0", "0", "0", "0", ToString(i), ".eml">>

\* C6: the k-th call of the converter is for the k-th located record of the
\* walk, and when that record is converted its text is in
\* message_<k-1 padded to 5 digits>.eml and that name is the one printed,
\* whatever became of the records before it.
C6_NameFromWalkPosition ==
    (container = "zip" /\ calls # <<>>) =>
        LET located == Located(tree)
            reports == SelectSeq(log, LAMBDA l :
                          l.kind \in {"converted", "error_converting", "error_processing"})
        IN  \A k \in 1..Len(calls) :
              /\ k <= Len(located)
              /\ calls[k].path = PathOf(located[k])
              /\ (calls[k].fault = "none" /\ ~ParseFails(located[k])) =>
                    /\ ExpectedName(k - 1) \in DOMAIN outdir
                    /\ <<calls[k].path, outdir[ExpectedName(k - 1)]>> \in TextOf
                    /\ k <= Len(reports)
                    /\ reports[k].kind = "converted"
                    /\ reports[k].eml = ExpectedName(k - 1)

\* the first record failed, the second was converted to message_00001.eml
C6_Witness ==
    /\ pc = "returned"
    /\ outdir0 = EmptyDir
    /\ Len(calls) >= 2
    /\ calls[1].fault = "read"
    /\ calls[2].fault = "none"
    /\ outdir[ExpectedName(0)] = NoFile
    /\ outdir[ExpectedName(1)] # NoFile

-----------------------------------------------------------------------------
(* Properties of the conversion of one record *)

\* text.split('\n')
RECURSIVE SplitLines(_)
SplitLines(s) ==
    LET ps == {p \in 1..Len(s) : s[p] = NL}
    IN  IF ps = {} THEN <<s>>
        ELSE LET p == CHOOSE q \in ps : \A r \in ps : q <= r
             IN  <<Take(s, p - 1)>> \o SplitLines(Drop(s, p))

StartsWith(line, name) == line # <<>> /\ line[1] = name

\* what follows the first blank line of a message file, without the line end
\* that closes the file
EmittedBody(eml) ==
    LET rest == Drop(eml, FindBlankLine(eml) + 1)
    IN  IF rest # <<>> /\ rest[Len(rest)] = NL THEN Take(rest, Len(rest) - 1) ELSE rest

\* C5: every message file written, by the structured or by the fallback
\* path, starts with the five lines From, To, Subject, Date, Message-ID in
\* that order, followed by an empty line and the body.
C5_FiveHeaderLines ==
    rpc = "done" =>
        LET ls == SplitLines(eml_file)
        IN  /\ Len(ls) >= 7
            /\ StartsWith(ls[1], "From:")
            /\ StartsWith(ls[2], "To:")
            /\ StartsWith(ls[3], "Subject:")
            /\ StartsWith(ls[4], "Date:")
            /\ StartsWith(ls[5], "Message-ID:")
            /\ ls[6] = <<>>

\* the tags of the parsed document
TagsOf(elems) == {elems[i].tag : i \in 1..Len(elems)}

\* C7: a record that parses as XML never takes the fallback path; its
\* conversion fails only in the write, after the text was extracted; the
\* text has the five header lines and an empty sixth line, and the line (or
\* the body) of every field whose tag is not in the document holds the empty
\* string; when the write succeeds the file holds exactly that text.
C7_MissingTagsAreEmpty ==
    /\ rpc = "binary" => root.kind = "ParseError"
    /\ root.kind = "root" =>
          /\ rpc \in {"xml", "write", "done", "error"}
          /\ rpc = "error" => eml_content # <<>>
          /\ rpc = "done" => eml_file = eml_content
          /\ rpc \in {"write", "done", "error"} =>
                LET ls == SplitLines(eml_content)
                    tags == TagsOf(root.elems)
                IN  /\ Len(ls) >= 8
                    /\ StartsWith(ls[1], "From:")
                    /\ StartsWith(ls[2], "To:")
                    /\ StartsWith(ls[3], "Subject:")
                    /\ StartsWith(ls[4], "Date:")
                    /\ StartsWith(ls[5], "Message-ID:")
                    /\ ls[6] = <<>>
                    /\ (tags \cap {FromAddressesTag, SenderAddressTag} = {}) =>
                          ls[1] = <<"From:", SP>>
                    /\ DisplayToTag \notin tags => ls[2] = <<"To:", SP>>
                    /\ SubjectTag \notin tags => ls[3] = <<"Subject:", SP>>
                    /\ SentTimeTag \notin tags => ls[4] = <<"Date:", SP>>
                    /\ MessageIDTag \notin tags => ls[5] = <<"Message-ID:", SP>>
                    /\ (tags \cap {BodyTag, HTMLBodyTag} = {}) =>
                          EmittedBody(eml_content) = <<>>

\* a document without any of the tags, written with six empty fields
C7_Witness ==
    /\ rpc = "done"
    /\ root.kind = "root"
    /\ TagsOf(root.elems) \subseteq {OtherTag}
    /\ Len(root.elems) >= 2
    /\ eml_file = <<"From:", SP, NL, "To:", SP, NL, "Subject:", SP, NL, "Date:", SP, NL,
                    "Message-ID:", SP, NL, NL, NL>>

\* header values and bodies without surrounding white space
PlainValues == {v \in HeaderValues : v # <<>>}
PlainBodies == {b \in HeaderBodies : Strip(b) = b}

\* C8: a record that is no XML and is made of a Subject:, a From:, a To: and
\* a Date: line, an empty line and a body is converted by the fallback path
\* to a text with exactly these four values and this body.
C8_HeaderLinesRecovered ==
    (rpc \in {"write", "done"} /\ root.kind = "ParseError"
       /\ message_file # <<>> /\ message_file[1] = "Subject:") =>
        \A vs \in PlainValues, vf \in PlainValues, vt \in PlainValues,
           vd \in PlainValues, b \in PlainBodies :
            message_file = HeaderRecord(vs, vf, vt, vd, b) =>
                LET ls == SplitLines(eml_content)
                IN  /\ Len(ls) >= 4
                    /\ ls[1] = <<"From:", SP>> \o vf
                    /\ ls[2] = <<"To:", SP>> \o vt
                    /\ ls[3] = <<"Subject:", SP>> \o vs
                    /\ ls[4] = <<"Date:", SP>> \o vd
                    /\ EmittedBody(eml_content) = b

\* no line of text begins with one of the names: wherever a name occurs, a
\* character that is no white space stands right before it
NoHeaderLine(text, names) ==
    \A p \in 1..Len(text) :
        Lower(text[p]) \in names =>
            /\ p > 1
            /\ ~IsSpace(text[p - 1])
            /\ Lower(text[p - 1]) \notin names

\* C9: a record that is no XML, has no line beginning with Subject:, From: or
\* To: and no blank line is converted to the placeholders "Unknown Sender",
\* "Unknown Recipient", "No Subject" and "Content could not be extracted";
\* the conversion of such a record fails only in the write, after the
\* fallback path has returned its text, whatever the bytes are.
C9_PlaceholdersWithoutHeaders ==
    /\ (rpc = "error" /\ root.kind = "ParseError") => eml_content # <<>>
    /\ (rpc \in {"write", "done"} /\ root.kind = "ParseError"
          /\ NoHeaderLine(Decode(content), {"subject:", "from:", "to:"})
          /\ FindBlankLine(Decode(content)) = NotFound) =>
            LET ls == SplitLines(eml_content)
            IN  /\ Len(ls) >= 3
                /\ ls[1] = <<"From:", SP>> \o UnknownSender
                /\ ls[2] = <<"To:", SP>> \o UnknownRecipient
                /\ ls[3] = <<"Subject:", SP>> \o NoSubject
                /\ EmittedBody(eml_content) = NotExtracted

\* s holds a match of <[^>]+>
HasTagSequence(s) ==
    \E i, j \in 1..Len(s) :
        /\ i + 1 < j
        /\ s[i] = "<"
        /\ s[j] = ">"
        /\ \A k \in (i + 1)..(j - 1) : s[k] # ">"

\* s holds a character reference
HasEntity(s) == \E i \in 1..(Len(s) - 1) : s[i] = "&" /\ s[i + 1] \in EntityNames

\* the texts of the body elements of the document
BodyPayloads(elems) ==
    {elems[i].text : i \in {k \in 1..Len(elems) : elems[k].tag \in {BodyTag, HTMLBodyTag}}}

\* C10: when the body payload of a structured record starts with "<", the
\* body of the text extracted holds no <...> sequence and no character
\* reference.
C10_NoMarkupLeft ==
    (rpc \in {"write", "done"} /\ root.kind = "root"
       /\ BodyPayloads(root.elems) # {}
       /\ \A t \in BodyPayloads(root.elems) : StartsWith(t, "<")) =>
        /\ ~HasTagSequence(EmittedBody(eml_content))
        /\ ~HasEntity(EmittedBody(eml_content))

-----------------------------------------------------------------------------
(* Properties of the walk *)

\* a token that is a number
IsNumber(tok) == tok \in {"0", "1", "2", "3", "4", "5", "6", "7", "8", "9"}

\* a name that ends with one of the two extensions, or is message_<n>.xml
FollowsConvention(name) ==
    \/ name[Len(name)] \in {Olk15, Olk14}
    \/ (Len(name) = 3 /\ name[1] = "message_" /\ IsNumber(name[2]) /\ name[3] = ".xml")

\* the paths handed to _convert_message_to_eml
CalledPaths == {calls[k].path : k \in 1..Len(calls)}

\* C11: at the end of a run over an archive that extracts, a file of the tree
\* was handed to the converter if and only if it lies under Local or Accounts
\* and its name ends with .olk15Message or .olk14Message or is message_<n>.xml
\* with a number n.
C11_LocatedIffConvention ==
    (pc = "returned" /\ container = "zip") =>
        \A i \in 1..Len(tree.files) :
            (PathOf(tree.files[i]) \in CalledPaths)
              <=> (/\ tree.files[i].dir \in {"Local", "Accounts"}
                   /\ FollowsConvention(tree.files[i].name))

\* the tree has no file under Local and none under Accounts
NoRoots == \A i \in 1..Len(tree.files) : tree.files[i].dir \notin {"Local", "Accounts"}

LinesOfKind(kinds) == SelectSeq(log, LAMBDA l : l.kind \in kinds)

\* C12: when the extracted tree has neither Local nor Accounts, nothing is
\* walked, no record is handed to the converter, the output directory stays
\* as it was, "No Local or Accounts directory found" is printed once, and
\* convert() returns without raising.
C12_NoRootsNothingDone ==
    (container = "zip" /\ NoRoots) =>
        /\ calls = <<>>
        /\ idx = 0
        /\ message_count = 0
        /\ outdir = outdir0
        /\ exc = "none"
        /\ pc \in {"start", "extract", "process", "leave", "returned"}
        /\ LinesOfKind({"converted", "error_converting", "error_processing",
                        "processed"}) = <<>>
        /\ pc \in {"leave", "returned"} => Len(LinesOfKind({"no_dirs"})) = 1
        /\ pc = "returned" => log[Len(log)].kind = "complete"

\* a finished run over a tree whose only message file lies under another
\* directory
C12_Witness ==
    /\ pc = "returned"
    /\ container = "zip"
    /\ NoRoots
    /\ \E i \in 1..Len(tree.files) : IsMessageFile(tree.files[i].name)
    /\ Len(LinesOfKind({"no_dirs"})) = 1
    /\ outdir = UsedDir

-----------------------------------------------------------------------------
(* Properties of the two parsers *)

\* the elements of the document with the tag
ElemsWithTag(elems, tag) == {i \in 1..Len(elems) : elems[i].tag = tag}

\* the text of the only element with the tag, when there is exactly one and
\* it is not empty; <<>> otherwise
SourceField(elems, tag) ==
    IF Cardinality(ElemsWithTag(elems, tag)) = 1
    THEN elems[CHOOSE i \in ElemsWithTag(elems, tag) : TRUE].text
    ELSE <<>>

\* C13: when the text extracted from a structured record is given to the
\* record parser again, the message it yields has the subject, sender,
\* recipient and message-id that the source tags held (for the tags present
\* in the source).
C13_FieldRoundTrip ==
    (rpc \in {"write", "done"} /\ root.kind = "root") =>
        \A now \in NowTexts :
            LET again == SplitLines(EmlText(eml_content, now))
                held(tag, name, k) ==
                    SourceField(root.elems, tag) # <<>> =>
                        /\ Len(again) >= k
                        /\ again[k] = <<name, SP>> \o SourceField(root.elems, tag)
            IN  /\ held(FromAddressesTag, "From:", 1)
                /\ held(DisplayToTag, "To:", 2)
                /\ held(SubjectTag, "Subject:", 3)
                /\ held(MessageIDTag, "Message-ID:", 5)

-----------------------------------------------------------------------------
(* Properties of the run's report and of its output files *)

\* C14: the count printed at the end of the walk is the number of message
\* files written in the run: a record whose conversion failed is not counted.
C14_CountIsFilesWritten ==
    pc = "returned" =>
        \A k \in 1..Len(log) :
            log[k].kind = "processed" => log[k].n = Len(ConvertedLines)

\* the calls that met no fault and whose record could be parsed
Emitted ==
    LET located == Located(tree)
    IN  {k \in 1..Len(calls) : calls[k].fault = "none" /\ ~ParseFails(located[k])}

\* C15: a record emitted to a name at which the output directory already
\* held a file is reported as converted like any other, and the file then
\* holds the text of the record and nothing else.
C15_ExistingFileReplaced ==
    container = "zip" =>
        /\ Len(ConvertedLines) = Cardinality(Emitted)
        /\ \A k \in Emitted :
              outdir0[ExpectedName(k - 1)] # NoFile =>
                  <<calls[k].path, outdir[ExpectedName(k - 1)]>> \in TextOf

\* the second record of a run was written over the file of an earlier run
C15_Witness ==
    /\ pc = "returned"
    /\ outdir0 = UsedDir
    /\ 2 \in Emitted
    /\ outdir[ExpectedName(1)] # outdir0[ExpectedName(1)]
    /\ <<calls[2].path, outdir[ExpectedName(1)]>> \in TextOf

-----------------------------------------------------------------------------
(* Properties of the fallback path *)

\* s without its leading blanks and tabs
RECURSIVE SkipBlanks(_)
SkipBlanks(s) ==
    IF s # <<>> /\ IsSpace(Head(s)) /\ NotEol(Head(s)) THEN SkipBlanks(Tail(s)) ELSE s

\* the positions of text at which a line begins with the name
LineStarts(name, text) ==
    {p \in 1..Len(text) : Lower(text[p]) = name /\ (p = 1 \/ ~NotEol(text[p - 1]))}

\* what follows the name at p on its own line
LineValue(text, p) ==
    LET g == SkipBlanks(Drop(text, p)) IN Take(g, LineSpan(g))

\* the values a header may take from text: what follows the name on a line
\* that begins with it
LineValues(name, text) ==
    {LineValue(text, p) : p \in LineStarts(name, text)} \ {<<>>}

\* C16: in the text the fallback path yields, the value of each of the four
\* headers is its placeholder or what follows the header's name on a line of
\* the record that begins with that name.
C16_ValuesFromAnchoredLines ==
    (rpc \in {"write", "done"} /\ root.kind = "ParseError") =>
        LET text == Decode(content)
            ls == SplitLines(eml_content)
            taken(k, name, placeholders) ==
                Drop(ls[k], 2) \in (placeholders \cup LineValues(name, text))
        IN  /\ Len(ls) >= 4
            /\ taken(1, "from:", {UnknownSender})
            /\ taken(2, "to:", {UnknownRecipient})
            /\ taken(3, "subject:", {NoSubject})
            /\ taken(4, "date:", NowTexts)

HeaderNames == {"subject:", "from:", "to:", "date:"}

\* the positions at which a line of text begins with a header name
HeaderStarts(text) == UNION {LineStarts(name, text) : name \in HeaderNames}

\* the positions of the blank-line separators of text
BlankLines(text) == {p \in 1..(Len(text) - 1) : text[p] = NL /\ text[p + 1] = NL}

\* the body the record has: what follows the first separator after the
\* header lines, or the placeholder
BodyAfterHeaders(text) ==
    LET ps == {p \in BlankLines(text) : \A h \in HeaderStarts(text) : h < p}
    IN  IF ps = {} THEN NotExtracted
        ELSE Strip(Drop(text, (CHOOSE p \in ps : \A q \in ps : p <= q) + 1))

\* C17: for a record whose blank-line separators all lie before or all lie
\* after its header lines, the body the fallback path yields is what follows
\* the first separator after the header lines, and the placeholder when
\* there is no such separator.
C17_BodyAfterHeaderRegion ==
    (rpc \in {"write", "done"} /\ root.kind = "ParseError") =>
        LET text == Decode(content)
        IN  (\/ \A p \in BlankLines(text), h \in HeaderStarts(text) : h < p
             \/ \A p \in BlankLines(text), h \in HeaderStarts(text) : p < h) =>
                EmittedBody(eml_content) = BodyAfterHeaders(text)

-----------------------------------------------------------------------------
(* Properties of the structured path *)

Largest(S) == CHOOSE i \in S : \A j \in S : j <= i
Smallest(S) == CHOOSE i \in S : \A j \in S : i <= j

\* the text of the last element with the tag, in document order
LastText(elems, tag) == elems[Largest(ElemsWithTag(elems, tag))].text

\* the text of the first element with the tag, in document order
FirstText(elems, tag) == elems[Smallest(ElemsWithTag(elems, tag))].text

Occurs(elems, tag) == ElemsWithTag(elems, tag) # {}
Repeated(elems, tag) == Cardinality(ElemsWithTag(elems, tag)) >= 2

\* C18, as claimed: in the text extracted from a document, each of subject,
\* recipient, sender, date and message-id whose tag occurs more than once is
\* that of the last element with the tag in document order, nested or not
\* (the date as FormatDate renders it).
C18_LastOccurrenceWins ==
    (rpc \in {"write", "done"} /\ root.kind = "root") =>
        LET ls == SplitLines(eml_content)
            elems == root.elems
        IN  /\ Repeated(elems, SubjectTag) =>
                  ls[3] = <<"Subject:", SP>> \o LastText(elems, SubjectTag)
            /\ Repeated(elems, DisplayToTag) =>
                  ls[2] = <<"To:", SP>> \o LastText(elems, DisplayToTag)
            /\ Repeated(elems, FromAddressesTag) =>
                  ls[1] = <<"From:", SP>> \o LastText(elems, FromAddressesTag)
            /\ Repeated(elems, SentTimeTag) =>
                  ls[4] = <<"Date:", SP>> \o FormatDate(LastText(elems, SentTimeTag))
            /\ Repeated(elems, MessageIDTag) =>
                  ls[5] = <<"Message-ID:", SP>> \o LastText(elems, MessageIDTag)

\* C18, amended: the same, except for the sender when the last from-address
\* element is empty and the document has a secondary sender element, which
\* then takes its place.
C18_LastOccurrenceUnlessSecondary ==
    (rpc \in {"write", "done"} /\ root.kind = "root") =>
        LET ls == SplitLines(eml_content)
            elems == root.elems
        IN  /\ Repeated(elems, SubjectTag) =>
                  ls[3] = <<"Subject:", SP>> \o LastText(elems, SubjectTag)
            /\ Repeated(elems, DisplayToTag) =>
                  ls[2] = <<"To:", SP>> \o LastText(elems, DisplayToTag)
            /\ (/\ Repeated(elems, FromAddressesTag)
                /\ (LastText(elems, FromAddressesTag) # <<>>
                      \/ ~Occurs(elems, SenderAddressTag))) =>
                  ls[1] = <<"From:", SP>> \o LastText(elems, FromAddressesTag)
            /\ (/\ Repeated(elems, FromAddressesTag)
                /\ LastText(elems, FromAddressesTag) = <<>>
                /\ Occurs(elems, SenderAddressTag)) =>
                  ls[1] = <<"From:", SP>> \o FirstText(elems, SenderAddressTag)
            /\ Repeated(elems, SentTimeTag) =>
                  ls[4] = <<"Date:", SP>> \o FormatDate(LastText(elems, SentTimeTag))
            /\ Repeated(elems, MessageIDTag) =>
                  ls[5] = <<"Message-ID:", SP>> \o LastText(elems, MessageIDTag)

\* a subject inside a message-id inside a subject: the inner subject is taken
C18_Witness ==
    /\ rpc = "done"
    /\ message_file = NestedRecord(<<[tag |-> SubjectTag, text |-> <<"1">>],
                                     [tag |-> MessageIDTag, text |-> <<"1">>],
                                     [tag |-> SubjectTag, text |-> <<"2">>]>>)
    /\ SplitLines(eml_file)[3] = <<"Subject:", SP, "2">>

\* the elements with the tag and a text that is not empty
NonEmpty(elems, tag) == {i \in ElemsWithTag(elems, tag) : elems[i].text # <<>>}

\* C19: when a document has a plain body element that is not empty, the body
\* extracted is that of the last such element, wherever the HTML body
\* elements stand; the first HTML body that is not empty is taken only when
\* there is no such plain body; without either the body is empty.
C19_PlainBodyPreferred ==
    (rpc \in {"write", "done"} /\ root.kind = "root") =>
        LET elems == root.elems
            plain == NonEmpty(elems, BodyTag)
            alternate == NonEmpty(elems, HTMLBodyTag)
            body == EmittedBody(eml_content)
        IN  /\ plain # {} =>
                  body = CleanBody(HtmlUnescape(elems[Largest(plain)].text))
            /\ (plain = {} /\ alternate # {}) =>
                  body = CleanBody(HtmlUnescape(elems[Smallest(alternate)].text))
            /\ (plain = {} /\ alternate = {}) => body = <<>>

\* the HTML body comes first and the plain body is emitted
C19_Witness ==
    /\ rpc = "done"
    /\ message_file = XmlRecord(<<[tag |-> HTMLBodyTag, text |-> <<"h">>],
                                  [tag |-> BodyTag, text |-> <<>>],
                                  [tag |-> BodyTag, text |-> <<"p">>]>>)
    /\ EmittedBody(eml_file) = <<"p">>

\* C20: the sender extracted is the text of the last from-address element
\* when that text is not empty, whatever secondary sender elements there
\* are; otherwise it is the text of the first secondary sender element, and
\* empty when there is none.
C20_SecondarySenderIffPrimaryEmpty ==
    (rpc \in {"write", "done"} /\ root.kind = "root") =>
        LET elems == root.elems
            primary == IF Occurs(elems, FromAddressesTag)
                       THEN LastText(elems, FromAddressesTag) ELSE <<>>
            sender == Drop(SplitLines(eml_content)[1], 2)
        IN  /\ primary # <<>> => sender = primary
            /\ (primary = <<>> /\ Occurs(elems, SenderAddressTag)) =>
                  sender = FirstText(elems, SenderAddressTag)
            /\ (primary = <<>> /\ ~Occurs(elems, SenderAddressTag)) => sender = <<>>

\* an empty primary element between two secondary ones: the first is taken
C20_Witness ==
    /\ rpc = "done"
    /\ message_file = XmlRecord(<<[tag |-> SenderAddressTag, text |-> <<"k">>],
                                  [tag |-> FromAddressesTag, text |-> <<>>],
                                  [tag |-> SenderAddressTag, text |-> <<"g">>]>>)
    /\ SplitLines(eml_file)[1] = <<"From:", SP, "k">>

\* the sent-time values of the documents: one that is reformatted, one with
\* the separator that is no ISO time, and two without the separator
IsoZulu == <<IsoDay, "T", IsoTime, "Z">>
IsoCut == <<IsoDay, "T">>

\* C21: the date extracted from a document is the text of its last sent-time
\* element, unchanged when the text has no "T" and when it has one but is no
\* ISO time, and rendered as "Tue, 02 Jan 2024 10:00:00 +0000" when it is the
\* ISO time 2024-01-02T10:00:00Z; a date that differs from the text was
\* reformatted from a text with a "T"; the conversion fails only in the
\* write, after the text was extracted.
C21_DateReformattedOnlyWithT ==
    (root.kind = "root" /\ Occurs(root.elems, SentTimeTag)) =>
        /\ rpc \in {"xml", "write", "done", "error"}
        /\ rpc = "error" => eml_content # <<>>
        /\ rpc \in {"write", "done"} =>
              LET raw == LastText(root.elems, SentTimeTag)
                  date == Drop(SplitLines(eml_content)[4], 2)
              IN  /\ SplitLines(eml_content)[4][1] = "Date:"
                  /\ (\A i \in 1..Len(raw) : raw[i] # "T") => date = raw
                  /\ raw = IsoCut => date = raw
                  /\ raw = IsoZulu => date = <<Formatted, SP, "+0000">>
                  /\ date # raw => \E i \in 1..Len(raw) : raw[i] = "T"

\* a sent time with the separator that cannot be reformatted, written as it is
C21_Witness ==
    /\ rpc = "done"
    /\ root.kind = "root"
    /\ Occurs(root.elems, SentTimeTag)
    /\ LastText(root.elems, SentTimeTag) = IsoCut
    /\ SplitLines(eml_file)[4] = <<"Date:", SP>> \o IsoCut

-----------------------------------------------------------------------------
(* Properties of the sequence counter and of the scratch directory *)

\* C22: in a run over an archive that extracts, message_count is the number
\* of records handed to the converter so far, the file names printed as
\* converted are pairwise different, and the file of every record emitted so
\* far still holds the text of that record, whatever was written after it.
C22_NoTwoRecordsSamePath ==
    container = "zip" =>
        /\ message_count = Len(calls)
        /\ \A i, j \in 1..Len(ConvertedLines) :
              i # j => ConvertedLines[i].eml # ConvertedLines[j].eml
        /\ \A k \in Emitted :
              /\ ExpectedName(k - 1) \in DOMAIN outdir
              /\ <<calls[k].path, outdir[ExpectedName(k - 1)]>> \in TextOf

\* three records: the first emitted, the second failed in the write, the
\* third emitted; the first file is still that of the first record
C22_Witness ==
    /\ pc = "returned"
    /\ Len(calls) = 3
    /\ Emitted = {1, 3}
    /\ calls[2].fault = "write_failed"
    /\ message_count = 3
    /\ <<calls[1].path, outdir[ExpectedName(0)]>> \in TextOf
    /\ outdir[ExpectedName(1)] = <<>>
    /\ <<calls[3].path, outdir[ExpectedName(2)]>> \in TextOf

\* C23: the scratch directory exists from its creation until convert() is
\* left, and it is removed whenever convert() has been left: after a completed
\* run, after a run that found no Local or Accounts root, and after an
\* exception of the container stage.
C23_ScratchDirReleased ==
    /\ pc = "start" => tempdir = "none"
    /\ pc = "extract" => tempdir = "created"
    /\ pc \in {"process", "walk", "leave"} => tempdir = "extracted"
    /\ pc \in {"returned", "raised"} => tempdir = "removed"
    /\ (pc = "returned" /\ NoRoots) => /\ tempdir = "removed"
                                       /\ LinesOfKind({"no_dirs"}) # <<>>
    /\ (pc # "start" /\ container # "zip") =>
          \/ pc = "extract"
          \/ pc = "raised" /\ exc # "none" /\ tempdir = "removed"

\* convert() left by the ValueError of the container stage, the directory gone
C23_Witness ==
    /\ pc = "raised"
    /\ BadArchive
    /\ exc = InvalidContainer
    /\ tempdir = "removed"

====
